---- MODULE Spec2Model ----
(***************************************************************************)
(* Model of app.py, the merchandise / customer record keeper (Flask over   *)
(* one SQL store).  The store is the two tables of init_db; every route of *)
(* app.py is an action.  SQL NULL is the empty set and a present value v   *)
(* is {v}; text is a sequence of characters, a date text 'YYYY-MM-DD' is   *)
(* the sequence <<y, m, d>>, and '' is <<>>.  REAL columns hold integral   *)
(* amounts; a quotient of two amounts is kept exact as [num, den].         *)
(* created_at / updated_at are not modelled.                               *)
(***************************************************************************)
EXTENDS Integers, Sequences, FiniteSets, TLC

VARIABLES
    merchandise,    \* table merchandise: id -> row
    customers,      \* table customers:   id -> row
    item_seq,       \* AUTOINCREMENT / SERIAL high-water mark of merchandise.id
    customer_seq,   \* AUTOINCREMENT / SERIAL high-water mark of customers.id
    response,       \* what the last finished request returned
    pc,             \* per concurrent request: where its handler stands
    req,            \* per concurrent request: the request being served
    applied,        \* order in which concurrent requests committed a write
    call            \* last call of a pure helper: function, input, result

vars == <<merchandise, customers, item_seq, customer_seq, response, pc, req, applied, call>>

store == <<merchandise, customers>>

\* ------------------------------------------------------------- bounds
MaxItems == 2
MaxCustomers == 2

\* ------------------------------------------------------------- values
NULL == {}
Some(v) == {v}
Val(o) == CHOOSE v \in o : TRUE

\* Python truthiness of request.form.get(k): None and '' are falsy.
Truthy(o) == o # NULL /\ Val(o) # <<>>

\* `request.form.get(k) or None`
OrNone(o) == IF Truthy(o) THEN o ELSE NULL

\* `x or 0` on a column value that may be NULL
OrZero(o) == IF o = NULL THEN 0 ELSE Val(o)

Digits == {"0", "1", "2", "3", "4", "5", "6", "7", "8", "9"}

DigitVal(c) ==
    CASE c = "0" -> 0 [] c = "1" -> 1 [] c = "2" -> 2 [] c = "3" -> 3 [] c = "4" -> 4
      [] c = "5" -> 5 [] c = "6" -> 6 [] c = "7" -> 7 [] c = "8" -> 8 [] c = "9" -> 9

RECURSIVE DigitsVal(_)
DigitsVal(s) ==
    IF s = <<>> THEN 0 ELSE DigitsVal(SubSeq(s, 1, Len(s) - 1)) * 10 + DigitVal(s[Len(s)])

\* Texts that float() / int() accept here: an optional sign and decimal digits.
IsNumeral(s) ==
    LET body == IF s # <<>> /\ s[1] = "-" THEN Tail(s) ELSE s
    IN  body # <<>> /\ \A i \in 1..Len(body) : body[i] \in Digits

\* int(text) / float(text) of a text for which IsNumeral holds
ParseNumber(s) ==
    IF s[1] = "-" THEN 0 - DigitsVal(Tail(s)) ELSE DigitsVal(s)

\* float(request.form.get(k) or 0): a falsy field is 0; a non-numeral raises ValueError
FloatOrZeroOk(o) == ~Truthy(o) \/ IsNumeral(Val(o))
FloatOrZero(o) == IF Truthy(o) THEN ParseNumber(Val(o)) ELSE 0

\* int(request.form.get('customer_id')) if request.form.get('customer_id') else None
IntOrNoneOk(o) == ~Truthy(o) \/ IsNumeral(Val(o))
IntOrNone(o) == IF Truthy(o) THEN Some(ParseNumber(Val(o))) ELSE NULL

\* 1 if request.form.get(k) else 0
Flag(o) == IF Truthy(o) THEN 1 ELSE 0

\* ------------------------------------------------------------- rank
RANK_THRESHOLDS == [platinum |-> 100000, gold |-> 50000, silver |-> 10000, bronze |-> 0]

Ranks == {"platinum", "gold", "silver", "bronze"}

\* a threshold compared with > : the lower bound of each band is left out
get_customer_rank_exclusive(total) ==
    IF total > RANK_THRESHOLDS.platinum THEN "platinum"
    ELSE IF total > RANK_THRESHOLDS.gold THEN "gold"
    ELSE IF total > RANK_THRESHOLDS.silver THEN "silver"
    ELSE "bronze"

get_customer_rank(total) ==
    IF total >= RANK_THRESHOLDS.platinum THEN "platinum"
    ELSE IF total >= RANK_THRESHOLDS.gold THEN "gold"
    ELSE IF total >= RANK_THRESHOLDS.silver THEN "silver"
    ELSE "bronze"

\* ------------------------------------------------------------- profit
calculate_profit(item) ==
    OrZero(item.sale_price) - OrZero(item.purchase_price)
        - OrZero(item.shipping_cost) - OrZero(item.commission)

\* profit / purchase * 100, kept exact
Rate(profit, purchase) == [num |-> profit * 100, den |-> purchase]
ZeroRate == [num |-> 0, den |-> 1]

\* the guard written as `purchase != 0`
calculate_profit_rate_nonzero(item) ==
    LET profit == calculate_profit(item)
        purchase == OrZero(item.purchase_price)
    IN  IF purchase # 0 THEN Rate(profit, purchase) ELSE ZeroRate

calculate_profit_rate(item) ==
    LET profit == calculate_profit(item)
        purchase == OrZero(item.purchase_price)
    IN  IF purchase > 0 THEN Rate(profit, purchase) ELSE ZeroRate

calculate_expected_profit(item) ==
    OrZero(item.listing_price) - OrZero(item.purchase_price)
        - OrZero(item.expected_shipping) - OrZero(item.expected_commission)

calculate_expected_profit_rate(item) ==
    LET profit == calculate_expected_profit(item)
        purchase == OrZero(item.purchase_price)
    IN  IF purchase > 0 THEN Rate(profit, purchase) ELSE ZeroRate

\* ------------------------------------------------------------- text
USE_POSTGRES == FALSE

Lower(c) == CASE c = "A" -> "a" [] c = "B" -> "b" [] OTHER -> c

LowerText(s) == [i \in 1..Len(s) |-> Lower(s[i])]

\* Python's `a in b` on str
Contains(b, a) ==
    \E k \in 0..(Len(b) - Len(a)) : SubSeq(b, k + 1, k + Len(a)) = a

\* column LIKE '%search%': NULL is no match; SQLite's LIKE folds ASCII case,
\* PostgreSQL's does not
Like(col, search) ==
    /\ col # NULL
    /\ IF USE_POSTGRES THEN Contains(Val(col), search)
       ELSE Contains(LowerText(Val(col)), LowerText(search))

\* ------------------------------------------------------------- dates
\* date.today() in the modelled window, the year 2024 (1 January is a Monday)
DaysInMonth(m) ==
    CASE m \in {4, 6, 9, 11} -> 30 [] m = 2 -> 29 [] OTHER -> 31

RECURSIVE DaysBefore(_)
DaysBefore(m) == IF m = 1 THEN 0 ELSE DaysBefore(m - 1) + DaysInMonth(m - 1)

DayOfYear(d) == DaysBefore(d[2]) + d[3]

\* date.weekday(): Monday is 0
Weekday(d) == (DayOfYear(d) - 1) % 7

RECURSIVE MinusDays(_, _)
MinusDays(d, n) ==
    IF n = 0 THEN d
    ELSE IF d[3] > 1 THEN MinusDays(<<d[1], d[2], d[3] - 1>>, n - 1)
    ELSE IF d[2] > 1 THEN MinusDays(<<d[1], d[2] - 1, DaysInMonth(d[2] - 1)>>, n - 1)
    ELSE MinusDays(<<d[1] - 1, 12, 31>>, n - 1)

\* text comparison of two 'YYYY-MM-DD' texts
DateGe(a, b) ==
    \/ a[1] > b[1]
    \/ a[1] = b[1] /\ a[2] > b[2]
    \/ a[1] = b[1] /\ a[2] = b[2] /\ a[3] >= b[3]

\* ------------------------------------------------------------- queries
Max(S) == CHOOSE m \in S : \A x \in S : x <= m

\* ORDER BY id DESC
RECURSIVE OrderByIdDesc(_)
OrderByIdDesc(S) ==
    IF S = {} THEN <<>> ELSE LET m == Max(S) IN <<m>> \o OrderByIdDesc(S \ {m})

RECURSIVE SumSeq(_)
SumSeq(s) == IF s = <<>> THEN 0 ELSE Head(s) + SumSeq(Tail(s))

\* the WHERE clause index() builds from its search term
SearchCondition(row, search) ==
    search = <<>> \/ Like(row.product_name, search) \/ Like(row.store_name, search)
        \/ Like(row.sales_platform, search)

\* "sold" asks for is_listed = 1 as well, and "listed" forgets sold_date
FilterConditionByFlag(row, filter_type, today) ==
    CASE filter_type = "listed" -> row.is_listed = 1
      [] filter_type = "sold" ->
            row.is_listed = 1 /\ row.sold_date # NULL /\ Val(row.sold_date) # <<>>
      [] OTHER -> TRUE

\* the WHERE clause index() builds from its filter
FilterCondition(row, filter_type, today) ==
    CASE filter_type = "today" ->
            row.purchase_date # NULL /\ Val(row.purchase_date) = today
      [] filter_type = "yesterday" ->
            row.purchase_date # NULL /\ Val(row.purchase_date) = MinusDays(today, 1)
      [] filter_type = "this_week" ->
            row.purchase_date # NULL
                /\ DateGe(Val(row.purchase_date), MinusDays(today, Weekday(today)))
      [] filter_type = "this_month" ->
            row.purchase_date # NULL
                /\ DateGe(Val(row.purchase_date), <<today[1], today[2], 1>>)
      [] filter_type = "not_listed" -> row.is_listed = 0
      [] filter_type = "listed" ->
            row.is_listed = 1 /\ (row.sold_date = NULL \/ Val(row.sold_date) = <<>>)
      [] filter_type = "sold" -> row.sold_date # NULL /\ Val(row.sold_date) # <<>>
      [] OTHER -> TRUE

\* items of index(): ids of the selected rows, ORDER BY id DESC
index_items(filter_type, search, today) ==
    OrderByIdDesc({i \in DOMAIN merchandise :
        /\ SearchCondition(merchandise[i], search)
        /\ FilterCondition(merchandise[i], filter_type, today)})

\* sale_price - purchase_price - shipping_cost - commission in SQL: NULL if any is
SqlProfit(row) ==
    IF NULL \in {row.sale_price, row.purchase_price, row.shipping_cost, row.commission}
    THEN NULL
    ELSE Some(Val(row.sale_price) - Val(row.purchase_price)
                  - Val(row.shipping_cost) - Val(row.commission))

\* COALESCE(SUM(expr), 0), vals being expr on each selected row: SUM skips NULL
SqlSum(vals) ==
    LET s == OrderByIdDesc({i \in DOMAIN vals : vals[i] # NULL})
    IN  SumSeq([k \in 1..Len(s) |-> Val(vals[s[k]])])

\* the sold count taken over the listed rows only
stats_sold_among_listed ==
    [total |-> Cardinality(DOMAIN merchandise),
     listed |-> Cardinality({i \in DOMAIN merchandise : merchandise[i].is_listed = 1}),
     sold |-> Cardinality({i \in DOMAIN merchandise :
                  /\ merchandise[i].is_listed = 1
                  /\ merchandise[i].sold_date # NULL /\ Val(merchandise[i].sold_date) # <<>>}),
     total_profit |-> 0]

\* stats of index() and api_stats(): four queries over the whole table
stats ==
    [total |-> Cardinality(DOMAIN merchandise),
     listed |-> Cardinality({i \in DOMAIN merchandise : merchandise[i].is_listed = 1}),
     sold |-> Cardinality({i \in DOMAIN merchandise :
                  merchandise[i].sold_date # NULL /\ Val(merchandise[i].sold_date) # <<>>}),
     total_profit |-> SqlSum([i \in {j \in DOMAIN merchandise :
                  merchandise[j].sold_date # NULL /\ Val(merchandise[j].sold_date) # <<>>}
                  |-> SqlProfit(merchandise[i])])]

\* what index() hands to its template
index_result(filter_type, search, today) ==
    [items |-> index_items(filter_type, search, today), stats |-> stats]

\* the WHERE clause without the sold predicate
get_customer_stats_unsold_too(customer_id) ==
    LET ids == {i \in DOMAIN merchandise : merchandise[i].customer_id = Some(customer_id)}
        total == SqlSum([i \in ids |-> merchandise[i].sale_price])
    IN  [purchase_count |-> Cardinality(ids), total_purchase |-> total,
         rank |-> get_customer_rank(total)]

get_customer_stats(customer_id) ==
    LET ids == {i \in DOMAIN merchandise :
                   /\ merchandise[i].customer_id = Some(customer_id)
                   /\ merchandise[i].sold_date # NULL
                   /\ Val(merchandise[i].sold_date) # <<>>}
        total == SqlSum([i \in ids |-> merchandise[i].sale_price])
        count == Cardinality(ids)
        rank == get_customer_rank(total)
    IN  [purchase_count |-> count, total_purchase |-> total, rank |-> rank]

\* the loop of customers_list() over the rows in id-descending order
RECURSIVE customers_with_stats(_, _, _)
customers_with_stats(cs, rank_filter, search) ==
    IF cs = <<>> THEN <<>>
    ELSE LET c == Head(cs)
             st == get_customer_stats(c)
             rest == customers_with_stats(Tail(cs), rank_filter, search)
         IN  IF rank_filter # "all" /\ st.rank # rank_filter THEN rest
             ELSE IF search # <<>>
                     /\ ~Contains(LowerText(Val(customers[c].name)), LowerText(search))
                  THEN rest
             ELSE <<c>> \o rest

\* customers who bought nothing are not counted
RECURSIVE CountRanksOfBuyers(_, _)
CountRanksOfBuyers(cs, counts) ==
    IF cs = <<>> THEN counts
    ELSE LET st == get_customer_stats(Head(cs))
         IN  CountRanksOfBuyers(Tail(cs),
                 IF st.purchase_count = 0 THEN counts
                 ELSE [counts EXCEPT ![st.rank] = @ + 1])

RECURSIVE CountRanks(_, _)
CountRanks(cs, counts) ==
    IF cs = <<>> THEN counts
    ELSE LET r == get_customer_stats(Head(cs)).rank
         IN  CountRanks(Tail(cs), [counts EXCEPT ![r] = @ + 1])

customers_list(rank_filter, search) ==
    LET shown == customers_with_stats(OrderByIdDesc(DOMAIN customers), rank_filter, search)
    IN  [customers |-> shown,
         rank_counts |-> CountRanks(shown,
             [platinum |-> 0, gold |-> 0, silver |-> 0, bronze |-> 0])]

\* ------------------------------------------------------------- uploads
UPLOAD_FOLDER == <<"static/uploads/">>

ALLOWED_EXTENSIONS ==
    {<<"p", "n", "g">>, <<"j", "p", "g">>, <<"j", "p", "e", "g">>, <<"g", "i", "f">>,
     <<"w", "e", "b", "p">>}

\* '.' in filename and filename.rsplit('.', 1)[1].lower() in ALLOWED_EXTENSIONS
allowed_file(filename) ==
    \E k \in 1..Len(filename) :
        /\ filename[k] = "."
        /\ \A j \in (k + 1)..Len(filename) : filename[j] # "."
        /\ LowerText(SubSeq(filename, k + 1, Len(filename))) \in ALLOWED_EXTENSIONS

\* the photo_path a POST ends with, from the path it starts with (the timestamp
\* prefix of the stored name is left out)
PhotoPath(form, initial) ==
    IF form.photo # NULL /\ Val(form.photo) # <<>> /\ allowed_file(Val(form.photo))
    THEN Some(UPLOAD_FOLDER \o Val(form.photo))
    ELSE initial

\* ------------------------------------------------------------- rows
\* float() and int() of the form raise nothing
ItemParamsOk(form) ==
    /\ FloatOrZeroOk(form.purchase_price)
    /\ FloatOrZeroOk(form.listing_price)
    /\ FloatOrZeroOk(form.expected_shipping)
    /\ FloatOrZeroOk(form.expected_commission)
    /\ FloatOrZeroOk(form.sale_price)
    /\ FloatOrZeroOk(form.shipping_cost)
    /\ FloatOrZeroOk(form.commission)
    /\ IntOrNoneOk(form.customer_id)

\* the amounts written as `request.form.get(k) or None`: a blank amount is stored NULL
ItemParamsBlankAsNull(form, photo_path) ==
    LET amount(o) == IF Truthy(o) THEN Some(ParseNumber(Val(o))) ELSE NULL
    IN  [purchase_date |-> OrNone(form.purchase_date),
         photo_path |-> photo_path,
         product_name |-> form.product_name,
         store_name |-> OrNone(form.store_name),
         purchase_price |-> amount(form.purchase_price),
         payment_method |-> OrNone(form.payment_method),
         is_listed |-> Flag(form.is_listed),
         listing_date |-> OrNone(form.listing_date),
         sold_date |-> OrNone(form.sold_date),
         listing_price |-> amount(form.listing_price),
         expected_shipping |-> amount(form.expected_shipping),
         expected_commission |-> amount(form.expected_commission),
         sale_price |-> amount(form.sale_price),
         shipping_cost |-> amount(form.shipping_cost),
         sales_platform |-> OrNone(form.sales_platform),
         commission |-> amount(form.commission),
         is_shipped |-> Flag(form.is_shipped),
         memo |-> OrNone(form.memo),
         customer_id |-> IntOrNone(form.customer_id)]

\* the parameter tuple of add_item's INSERT and edit_item's UPDATE
ItemParams(form, photo_path) ==
    [purchase_date |-> OrNone(form.purchase_date),
     photo_path |-> photo_path,
     product_name |-> form.product_name,
     store_name |-> OrNone(form.store_name),
     purchase_price |-> Some(FloatOrZero(form.purchase_price)),
     payment_method |-> OrNone(form.payment_method),
     is_listed |-> Flag(form.is_listed),
     listing_date |-> OrNone(form.listing_date),
     sold_date |-> OrNone(form.sold_date),
     listing_price |-> Some(FloatOrZero(form.listing_price)),
     expected_shipping |-> Some(FloatOrZero(form.expected_shipping)),
     expected_commission |-> Some(FloatOrZero(form.expected_commission)),
     sale_price |-> Some(FloatOrZero(form.sale_price)),
     shipping_cost |-> Some(FloatOrZero(form.shipping_cost)),
     sales_platform |-> OrNone(form.sales_platform),
     commission |-> Some(FloatOrZero(form.commission)),
     is_shipped |-> Flag(form.is_shipped),
     memo |-> OrNone(form.memo),
     customer_id |-> IntOrNone(form.customer_id)]

\* the parameter tuple of add_customer's INSERT and edit_customer's UPDATE
CustomerParams(form) ==
    [name |-> form.name,
     email |-> OrNone(form.email),
     phone |-> OrNone(form.phone),
     address |-> OrNone(form.address),
     memo |-> OrNone(form.memo)]

\* ------------------------------------------------------------- statements
\* product_name TEXT NOT NULL
MerchandiseConstraint(row) == row.product_name # NULL

\* name TEXT NOT NULL
CustomersConstraint(row) == row.name # NULL

\* id INTEGER PRIMARY KEY without AUTOINCREMENT: the new id is one past the largest
\* id now in the table
InsertRowPastLargest(table, seq, row) ==
    LET id == IF DOMAIN table = {} THEN 1 ELSE Max(DOMAIN table) + 1
    IN  [i \in DOMAIN table \cup {id} |-> IF i = id THEN row ELSE table[i]]

\* INSERT INTO t ... : the new id is one past the high-water mark
InsertRow(table, seq, row) ==
    [i \in DOMAIN table \cup {seq + 1} |-> IF i = seq + 1 THEN row ELSE table[i]]

\* a column is missing from the SET list: memo keeps its stored value
UpdateRowWithoutMemo(table, id, row) ==
    [i \in DOMAIN table |->
        IF i = id THEN [row EXCEPT !.memo = table[i].memo] ELSE table[i]]

\* UPDATE t SET (every column) WHERE id = %s
UpdateRow(table, id, row) ==
    [i \in DOMAIN table |-> IF i = id THEN row ELSE table[i]]

\* DELETE FROM t WHERE id = %s
DeleteRow(table, id) ==
    [i \in DOMAIN table \ {id} |-> table[i]]

\* the referencing rows are deleted instead of cleared (ON DELETE CASCADE)
ClearCustomerIdCascade(table, id) ==
    [i \in {j \in DOMAIN table : table[j].customer_id # Some(id)} |-> table[i]]

\* UPDATE merchandise SET customer_id = NULL WHERE customer_id = %s
ClearCustomerId(table, id) ==
    [i \in DOMAIN table |->
        IF table[i].customer_id = Some(id) THEN [table[i] EXCEPT !.customer_id = NULL]
        ELSE table[i]]

\* ------------------------------------------------------------- responses
Redirect(flash, to) == [status |-> "redirect", flash |-> flash, to |-> to]
\* a page, a JSON body or a file is returned: no flash, no redirect
Page == [status |-> "ok", flash |-> "none", to |-> "none"]
\* an exception left the handler: no flash, no redirect
ServerError == [status |-> "error", flash |-> "none", to |-> "none"]
NoResponse == [status |-> "none", flash |-> "none", to |-> "none"]

\* ------------------------------------------------------------- inputs
ItemIds == 1..MaxItems
CustomerIds == 1..MaxCustomers

\* which statement of a handler the store refuses: the execute or the commit of
\* db_execute / db_insert raises, the statement leaves no trace and the handler ends
OneStatementFaults == {"none", "first"}
TwoStatementFaults == {"none", "first", "second"}

EmptyItemForm ==
    [purchase_date |-> NULL, product_name |-> Some(<<"a">>), store_name |-> NULL,
     purchase_price |-> NULL, payment_method |-> NULL, is_listed |-> NULL,
     listing_date |-> NULL, sold_date |-> NULL, listing_price |-> NULL,
     expected_shipping |-> NULL, expected_commission |-> NULL, sale_price |-> NULL,
     shipping_cost |-> NULL, sales_platform |-> NULL, commission |-> NULL,
     is_shipped |-> NULL, memo |-> NULL, customer_id |-> NULL,
     existing_photo |-> NULL, photo |-> NULL]

On == Some(<<"o", "n">>)
Amount5000 == Some(<<"5", "0", "0", "0">>)
Amount50000 == Some(<<"5", "0", "0", "0", "0">>)

\* listed, not sold, yet carrying a sale price and a customer; a photo is uploaded
ListedForm ==
    [EmptyItemForm EXCEPT !.is_listed = On, !.listing_date = Some(<<2024, 3, 1>>),
        !.purchase_date = Some(<<2024, 3, 1>>), !.store_name = Some(<<"b">>),
        !.listing_price = Some(<<"8", "0", "0", "0">>),
        !.purchase_price = Amount5000,
        !.expected_shipping = Some(<<"5", "0", "0">>),
        !.expected_commission = Some(<<"4", "0", "0">>),
        !.sale_price = Amount5000, !.customer_id = Some(<<"1">>),
        !.existing_photo = Some(<<"q">>), !.photo = Some(<<"p", ".", "P", "N", "G">>)]

\* listed and sold to customer 1; the upload is refused
SoldForm ==
    [EmptyItemForm EXCEPT !.is_listed = On, !.sold_date = Some(<<2024, 3, 4>>),
        !.purchase_date = Some(<<2024, 3, 4>>), !.sale_price = Amount5000,
        !.purchase_price = Some(<<"3", "0", "0", "0">>),
        !.shipping_cost = Some(<<"3", "0", "0">>), !.commission = Some(<<"2", "0", "0">>),
        !.sales_platform = Some(<<"b", "a">>), !.is_shipped = On,
        !.customer_id = Some(<<"1">>), !.photo = Some(<<"p", ".", "e", "x", "e">>)]

\* sold to customer 2 without ever being listed
SoldUnlistedForm ==
    [EmptyItemForm EXCEPT !.product_name = Some(<<"A", "b">>),
        !.sold_date = Some(<<2024, 2, 29>>), !.sale_price = Amount50000,
        !.purchase_price = Some(<<"-", "1">>), !.payment_method = Some(<<"a">>),
        !.customer_id = Some(<<"2">>), !.memo = Some(<<"a">>)]

\* the fields are sent blank instead of not at all
BlankForm ==
    [EmptyItemForm EXCEPT !.is_listed = Some(<<>>), !.sold_date = Some(<<>>),
        !.customer_id = Some(<<>>), !.sale_price = Some(<<>>),
        !.purchase_date = Some(<<>>), !.store_name = Some(<<>>), !.photo = Some(<<>>)]

\* float('x') raises ValueError
MalformedForm == [SoldForm EXCEPT !.purchase_price = Some(<<"x">>)]

\* no product_name field: NOT NULL refuses the row
NamelessForm == [SoldForm EXCEPT !.product_name = NULL]

ItemForms ==
    {EmptyItemForm, ListedForm, SoldForm, SoldUnlistedForm, BlankForm, MalformedForm,
     NamelessForm}

EmptyCustomerForm ==
    [name |-> Some(<<"a">>), email |-> NULL, phone |-> NULL, address |-> NULL,
     memo |-> NULL]

RenamedCustomerForm ==
    [EmptyCustomerForm EXCEPT !.name = Some(<<"A", "b">>), !.email = Some(<<"a">>),
        !.phone = Some(<<>>)]

\* no name field: NOT NULL refuses the row
NamelessCustomerForm == [EmptyCustomerForm EXCEPT !.name = NULL]

CustomerForms == {EmptyCustomerForm, NamelessCustomerForm}

\* what a POST carries and where the store refuses it
ItemPosts == {<<f, "none">> : f \in ItemForms} \cup {<<SoldForm, "first">>}
CustomerPosts == {<<f, "none">> : f \in CustomerForms} \cup {<<EmptyCustomerForm, "first">>}

Filters ==
    {"all", "today", "yesterday", "this_week", "this_month", "not_listed", "listed", "sold"}

Searches == {<<>>, <<"B">>}

Todays == {<<2024, 3, 4>>, <<2024, 1, 1>>}

\* ------------------------------------------------------------- handlers
\* Each handler below is one whole request served alone.
others == <<pc, req, applied, call>>

index ==
    /\ response' = Page
    /\ UNCHANGED <<store, item_seq, customer_seq, others>>

add_item(method, form, fault) ==
    /\ method = "POST" => item_seq < MaxItems
    /\ LET row == ItemParams(form, PhotoPath(form, NULL))
       IN  IF method = "GET"
           THEN /\ response' = Page
                /\ UNCHANGED <<merchandise, item_seq>>
           ELSE IF ~ItemParamsOk(form) \/ fault # "none" \/ ~MerchandiseConstraint(row)
           THEN /\ response' = ServerError
                /\ UNCHANGED <<merchandise, item_seq>>
           ELSE /\ merchandise' = InsertRow(merchandise, item_seq, row)
                /\ item_seq' = item_seq + 1
                /\ response' = Redirect("success", "index")
    /\ UNCHANGED <<customers, customer_seq, others>>

edit_item(id, method, form, fault) ==
    /\ LET row == ItemParams(form, PhotoPath(form, form.existing_photo))
       IN  IF method = "POST"
           THEN IF \/ ~ItemParamsOk(form)
                   \/ fault # "none"
                   \/ (id \in DOMAIN merchandise /\ ~MerchandiseConstraint(row))
                THEN /\ response' = ServerError
                     /\ UNCHANGED merchandise
                ELSE /\ merchandise' = UpdateRow(merchandise, id, row)
                     /\ response' = Redirect("success", "index")
           ELSE /\ response' = IF id \in DOMAIN merchandise THEN Page
                               ELSE Redirect("error", "index")
                /\ UNCHANGED merchandise
    /\ UNCHANGED <<customers, item_seq, customer_seq, others>>

delete_item(id, fault) ==
    /\ IF fault # "none"
       THEN /\ response' = ServerError
            /\ UNCHANGED merchandise
       ELSE /\ merchandise' = DeleteRow(merchandise, id)
            /\ response' = Redirect("success", "index")
    /\ UNCHANGED <<customers, item_seq, customer_seq, others>>

view_item(id) ==
    /\ response' = IF id \in DOMAIN merchandise THEN Page
                   ELSE Redirect("error", "index")
    /\ UNCHANGED <<store, item_seq, customer_seq, others>>

export_csv ==
    /\ response' = Page
    /\ UNCHANGED <<store, item_seq, customer_seq, others>>

api_stats ==
    /\ response' = Page
    /\ UNCHANGED <<store, item_seq, customer_seq, others>>

customers_list_page ==
    /\ response' = Page
    /\ UNCHANGED <<store, item_seq, customer_seq, others>>

add_customer(method, form, fault) ==
    /\ method = "POST" => customer_seq < MaxCustomers
    /\ LET row == CustomerParams(form)
       IN  IF method = "GET"
           THEN /\ response' = Page
                /\ UNCHANGED <<customers, customer_seq>>
           ELSE IF fault # "none" \/ ~CustomersConstraint(row)
           THEN /\ response' = ServerError
                /\ UNCHANGED <<customers, customer_seq>>
           ELSE /\ customers' = InsertRow(customers, customer_seq, row)
                /\ customer_seq' = customer_seq + 1
                /\ response' = Redirect("success", "customers_list")
    /\ UNCHANGED <<merchandise, item_seq, others>>

edit_customer(id, method, form, fault) ==
    /\ LET row == CustomerParams(form)
       IN  IF method = "POST"
           THEN IF fault # "none" \/ (id \in DOMAIN customers /\ ~CustomersConstraint(row))
                THEN /\ response' = ServerError
                     /\ UNCHANGED customers
                ELSE /\ customers' = UpdateRow(customers, id, row)
                     /\ response' = Redirect("success", "customers_list")
           ELSE /\ response' = IF id \in DOMAIN customers THEN Page
                               ELSE Redirect("error", "customers_list")
                /\ UNCHANGED customers
    /\ UNCHANGED <<merchandise, item_seq, customer_seq, others>>

view_customer(id) ==
    /\ response' = IF id \in DOMAIN customers THEN Page
                   ELSE Redirect("error", "customers_list")
    /\ UNCHANGED <<store, item_seq, customer_seq, others>>

delete_customer(id, fault) ==
    /\ IF fault = "first"
       THEN /\ response' = ServerError
            /\ UNCHANGED store
       ELSE IF fault = "second"
       THEN /\ merchandise' = ClearCustomerId(merchandise, id)
            /\ response' = ServerError
            /\ UNCHANGED customers
       ELSE /\ merchandise' = ClearCustomerId(merchandise, id)
            /\ customers' = DeleteRow(customers, id)
            /\ response' = Redirect("success", "customers_list")
    /\ UNCHANGED <<item_seq, customer_seq, others>>

api_customers ==
    /\ response' = Page
    /\ UNCHANGED <<store, item_seq, customer_seq, others>>

Requests == {"r1", "r2"}

\* a request without a form or an id carries NoForm or 0 in its place
NoForm == [name |-> NULL]
NoRequest == [op |-> "none", id |-> 0, form |-> NoForm, response |-> NoResponse]
NoCall == [fn |-> "none", arg |-> {}, ret |-> {}]

\* the store init_db() leaves on first start: both tables empty
Init ==
    /\ merchandise = <<>>
    /\ customers = <<>>
    /\ item_seq = 0
    /\ customer_seq = 0
    /\ response = NoResponse
    /\ pc = [r \in Requests |-> "idle"]
    /\ req = [r \in Requests |-> NoRequest]
    /\ applied = <<>>
    /\ call = NoCall

Next ==
    \/ index
    \/ add_item("GET", EmptyItemForm, "none")
    \/ \E q \in ItemPosts : add_item("POST", q[1], q[2])
    \/ \E i \in ItemIds : edit_item(i, "GET", EmptyItemForm, "none")
    \/ \E i \in ItemIds, q \in ItemPosts : edit_item(i, "POST", q[1], q[2])
    \/ \E i \in ItemIds, x \in OneStatementFaults : delete_item(i, x)
    \/ \E i \in ItemIds : view_item(i)
    \/ export_csv
    \/ api_stats
    \/ customers_list_page
    \/ add_customer("GET", EmptyCustomerForm, "none")
    \/ \E q \in CustomerPosts : add_customer("POST", q[1], q[2])
    \/ \E i \in CustomerIds : edit_customer(i, "GET", EmptyCustomerForm, "none")
    \/ \E i \in CustomerIds, q \in CustomerPosts : edit_customer(i, "POST", q[1], q[2])
    \/ \E i \in CustomerIds : view_customer(i)
    \/ \E i \in CustomerIds, x \in TwoStatementFaults : delete_customer(i, x)
    \/ api_customers

Spec == Init /\ [][Next]_vars

\* ------------------------------------------------------------- concurrent requests
\* Two requests are served at once, each on its own connection (get_db per request).
\* A request is received, then runs its statements one at a time; every statement is
\* committed on its own by db_execute / db_insert, and other requests' statements may
\* fall between two of them.
ConcItemForms == {ListedForm, SoldUnlistedForm, MalformedForm, NamelessForm}
ConcCustomerForms == {EmptyCustomerForm, RenamedCustomerForm, NamelessCustomerForm}

ConcRequests ==
    {[op |-> "edit_item", id |-> i, form |-> f, response |-> NoResponse] :
        i \in ItemIds, f \in ConcItemForms}
    \cup {[op |-> "edit_customer", id |-> i, form |-> f, response |-> NoResponse] :
        i \in CustomerIds, f \in ConcCustomerForms}
    \cup {[op |-> "add_item", id |-> 0, form |-> f, response |-> NoResponse] :
        f \in {ListedForm, SoldUnlistedForm}}
    \cup {[op |-> "delete_customer", id |-> i, form |-> NoForm, response |-> NoResponse] :
        i \in CustomerIds}

seqs == <<item_seq, customer_seq>>

Finish(r, resp) ==
    /\ pc' = [pc EXCEPT ![r] = "done"]
    /\ req' = [req EXCEPT ![r].response = resp]

\* a POST arrives and its handler opens a connection
receive(r, request) ==
    /\ pc[r] = "idle"
    /\ pc' = [pc EXCEPT ![r] = "start"]
    /\ req' = [req EXCEPT ![r] = request]
    /\ UNCHANGED <<store, seqs, applied, response, call>>

\* edit_item, POST: the parameters are built and the UPDATE is executed and committed
edit_item_update(r) ==
    /\ pc[r] = "start" /\ req[r].op = "edit_item"
    /\ LET form == req[r].form
           id == req[r].id
           row == ItemParams(form, PhotoPath(form, form.existing_photo))
       IN  IF \/ ~ItemParamsOk(form)
              \/ (id \in DOMAIN merchandise /\ ~MerchandiseConstraint(row))
           THEN /\ Finish(r, ServerError)
                /\ UNCHANGED <<merchandise, applied>>
           ELSE /\ merchandise' = UpdateRow(merchandise, id, row)
                /\ applied' = Append(applied, r)
                /\ Finish(r, Redirect("success", "index"))
    /\ UNCHANGED <<customers, seqs, response, call>>

\* edit_customer, POST: the UPDATE is executed and committed
edit_customer_update(r) ==
    /\ pc[r] = "start" /\ req[r].op = "edit_customer"
    /\ LET id == req[r].id
           row == CustomerParams(req[r].form)
       IN  IF id \in DOMAIN customers /\ ~CustomersConstraint(row)
           THEN /\ Finish(r, ServerError)
                /\ UNCHANGED <<customers, applied>>
           ELSE /\ customers' = UpdateRow(customers, id, row)
                /\ applied' = Append(applied, r)
                /\ Finish(r, Redirect("success", "customers_list"))
    /\ UNCHANGED <<merchandise, seqs, response, call>>

\* add_item, POST: the parameters are built and the INSERT is executed and committed
add_item_insert(r) ==
    /\ pc[r] = "start" /\ req[r].op = "add_item"
    /\ item_seq < MaxItems
    /\ LET form == req[r].form
           row == ItemParams(form, PhotoPath(form, NULL))
       IN  IF ~ItemParamsOk(form) \/ ~MerchandiseConstraint(row)
           THEN /\ Finish(r, ServerError)
                /\ UNCHANGED <<merchandise, item_seq, applied>>
           ELSE /\ merchandise' = InsertRow(merchandise, item_seq, row)
                /\ item_seq' = item_seq + 1
                /\ applied' = Append(applied, r)
                /\ Finish(r, Redirect("success", "index"))
    /\ UNCHANGED <<customers, customer_seq, response, call>>

\* delete_customer: the first db_execute, UPDATE merchandise SET customer_id = NULL
delete_customer_clear(r) ==
    /\ pc[r] = "start" /\ req[r].op = "delete_customer"
    /\ merchandise' = ClearCustomerId(merchandise, req[r].id)
    /\ applied' = Append(applied, r)
    /\ pc' = [pc EXCEPT ![r] = "delete"]
    /\ UNCHANGED <<customers, seqs, req, response, call>>

\* delete_customer: the second db_execute, DELETE FROM customers
delete_customer_delete(r) ==
    /\ pc[r] = "delete" /\ req[r].op = "delete_customer"
    /\ customers' = DeleteRow(customers, req[r].id)
    /\ applied' = Append(applied, r)
    /\ Finish(r, Redirect("success", "customers_list"))
    /\ UNCHANGED <<merchandise, seqs, response, call>>

\* a store the requests above find: one sold item of customer 1, customers 1 and 2
InitConc ==
    /\ merchandise = InsertRow(<<>>, 0, ItemParams(SoldForm, NULL))
    /\ customers = InsertRow(InsertRow(<<>>, 0, CustomerParams(EmptyCustomerForm)), 1,
                       CustomerParams(EmptyCustomerForm))
    /\ item_seq = 1
    /\ customer_seq = 2
    /\ response = NoResponse
    /\ pc = [r \in Requests |-> "idle"]
    /\ req = [r \in Requests |-> NoRequest]
    /\ applied = <<>>
    /\ call = NoCall

NextConc ==
    \E r \in Requests :
        \/ \E q \in ConcRequests : receive(r, q)
        \/ edit_item_update(r)
        \/ edit_customer_update(r)
        \/ add_item_insert(r)
        \/ delete_customer_clear(r)
        \/ delete_customer_delete(r)

SpecConc == InitConc /\ [][NextConc]_vars

\* ------------------------------------------------------------- helpers called alone
\* totals around every threshold of RANK_THRESHOLDS, and below zero
Totals ==
    (0 - 20)..20 \cup 9980..10020 \cup 49980..50020 \cup 99980..100020 \cup {1000000}

Amounts(S) == {NULL} \cup {Some(a) : a \in S}

\* rows as the helpers read them: any amount may be NULL
ProfitItems ==
    [purchase_price : Amounts({0 - 100, 0, 300, 500}),
     sale_price : Amounts({0, 500}),
     shipping_cost : Amounts({30}),
     commission : Amounts({20}),
     listing_price : Amounts({800}),
     expected_shipping : Amounts({50}),
     expected_commission : Amounts({40})]

call_get_customer_rank ==
    /\ \E t \in Totals :
           call' = [fn |-> "get_customer_rank", arg |-> t, ret |-> get_customer_rank(t)]
    /\ UNCHANGED <<store, item_seq, customer_seq, response, pc, req, applied>>

call_calculate_profit_rate ==
    /\ \E item \in ProfitItems :
           call' = [fn |-> "calculate_profit_rate", arg |-> item,
                    ret |-> calculate_profit_rate(item)]
    /\ UNCHANGED <<store, item_seq, customer_seq, response, pc, req, applied>>

call_calculate_expected_profit_rate ==
    /\ \E item \in ProfitItems :
           call' = [fn |-> "calculate_expected_profit_rate", arg |-> item,
                    ret |-> calculate_expected_profit_rate(item)]
    /\ UNCHANGED <<store, item_seq, customer_seq, response, pc, req, applied>>

NextPure ==
    \/ call_get_customer_rank
    \/ call_calculate_profit_rate
    \/ call_calculate_expected_profit_rate

SpecPure == Init /\ [][NextPure]_vars

\* ------------------------------------------------------------- claims: helpers
\* C3: get_customer_rank(t) is bronze iff t < 10,000, silver iff 10,000 <= t < 50,000,
\* gold iff 50,000 <= t < 100,000 and platinum iff t >= 100,000; each threshold is an
\* inclusive lower bound and a negative total is bronze.
C3_RankBands ==
    call.fn = "get_customer_rank" =>
        /\ (call.ret = "bronze") <=> (call.arg < 10000)
        /\ (call.ret = "silver") <=> (10000 <= call.arg /\ call.arg < 50000)
        /\ (call.ret = "gold") <=> (50000 <= call.arg /\ call.arg < 100000)
        /\ (call.ret = "platinum") <=> (call.arg >= 100000)

\* C3 witness: a total exactly on a threshold was classified into the upper band
C3_Witness ==
    call.fn = "get_customer_rank" /\ call.arg = 50000 /\ call.ret = "gold"

\* C8: for an item whose purchase_price is 0, absent or negative both rate helpers
\* return 0 whatever the other fields are; for purchase_price > 0 the rate is
\* profit / purchase_price * 100, profit being the realized profit for
\* calculate_profit_rate and the projected profit for calculate_expected_profit_rate.
C8_ProfitRates ==
    call.fn \in {"calculate_profit_rate", "calculate_expected_profit_rate"} =>
        LET item == call.arg
            amount(o) == IF o = NULL THEN 0 ELSE Val(o)
            purchase == amount(item.purchase_price)
            profit ==
                IF call.fn = "calculate_profit_rate"
                THEN amount(item.sale_price) - purchase - amount(item.shipping_cost)
                         - amount(item.commission)
                ELSE amount(item.listing_price) - purchase
                         - amount(item.expected_shipping) - amount(item.expected_commission)
        IN  /\ call.ret.den > 0
            /\ purchase <= 0 => call.ret.num = 0
            /\ purchase > 0 => call.ret.num * purchase = profit * 100 * call.ret.den

\* C8 witness: a negative purchase_price with a non-zero profit gave the rate 0
C8_Witness ==
    /\ call.fn = "calculate_profit_rate"
    /\ call.arg.purchase_price = Some(0 - 100)
    /\ call.arg.sale_price = Some(500)
    /\ call.ret.num = 0

\* ------------------------------------------------------------- claims: the store
\* "sold": sold_date is present and non-empty
Sold(row) == \E d \in row.sold_date : Len(d) > 0

Range(s) == {s[k] : k \in 1..Len(s)}

RECURSIVE SumOver(_, _)
SumOver(S, f) ==
    IF S = {} THEN 0 ELSE LET x == CHOOSE y \in S : TRUE IN f[x] + SumOver(S \ {x}, f)

\* C1: when delete_customer(c) completes for an existing customer c, every item that
\* referenced c has no customer_id, c is no longer in the store, and the items in the
\* store are the same as before.
C1_DeleteCustomerKeepsItems ==
    [][\A c \in DOMAIN customers :
          delete_customer(c, "none") =>
              /\ c \notin DOMAIN customers'
              /\ DOMAIN merchandise' = DOMAIN merchandise
              /\ \A i \in DOMAIN merchandise :
                     merchandise[i].customer_id = Some(c)
                         => merchandise'[i].customer_id = NULL]_vars

\* C1 witness: customer 1 was deleted and both items that were sold to it remain,
\* without a customer
C1_Witness ==
    /\ response = Redirect("success", "customers_list")
    /\ customer_seq >= 1
    /\ 1 \notin DOMAIN customers
    /\ Cardinality({i \in DOMAIN merchandise :
           /\ merchandise[i].customer_id = NULL
           /\ merchandise[i].sales_platform = Some(<<"b", "a">>)}) >= 2

\* C2: a mutating request that fails leaves the store as it was before the request;
\* in particular a delete_customer whose DELETE fails does not leave customer_id cleared.
C2_FailureLeavesStoreUntouched ==
    [][response'.status = "error" => store' = store]_vars

\* C4: with no search term the sold view holds exactly the items whose sold_date is
\* present and non-empty, whatever is_listed is; the listed view holds exactly the
\* items with is_listed true and no sold_date; the two views are disjoint.
C4_SoldAndListedViews ==
    \A t \in Todays :
        LET sold == index_items("sold", <<>>, t)
            listed == index_items("listed", <<>>, t)
        IN  /\ Range(sold) = {i \in DOMAIN merchandise : Sold(merchandise[i])}
            /\ Len(sold) = Cardinality(Range(sold))
            /\ Range(listed) = {i \in DOMAIN merchandise :
                   merchandise[i].is_listed = 1 /\ ~Sold(merchandise[i])}
            /\ Len(listed) = Cardinality(Range(listed))
            /\ Range(sold) \cap Range(listed) = {}

\* C4 witness: a sold item that was never listed is in the sold view, and a listed
\* item that is sold is kept out of the listed view
C4_Witness ==
    \E i, j \in DOMAIN merchandise :
        /\ merchandise[i].is_listed = 0 /\ i \in Range(index_items("sold", <<>>, <<2024, 3, 4>>))
        /\ merchandise[j].is_listed = 1 /\ Sold(merchandise[j])
        /\ j \notin Range(index_items("listed", <<>>, <<2024, 3, 4>>))

\* C5: the customer listing with rank filter 'all' and no name search yields
\* rank_counts with exactly the keys platinum, gold, silver, bronze, whose values
\* sum to the number of customer records.
C5_RankCountsSum ==
    LET counts == customers_list("all", <<>>).rank_counts
    IN  /\ DOMAIN counts = {"platinum", "gold", "silver", "bronze"}
        /\ counts.platinum + counts.gold + counts.silver + counts.bronze
               = Cardinality(DOMAIN customers)

\* C5 witness: two customers in different ranks, one of them without any purchase
C5_Witness ==
    LET counts == customers_list("all", <<>>).rank_counts
    IN  /\ counts.gold = 1 /\ counts.bronze = 1 /\ counts.platinum = 0
        /\ \E c \in DOMAIN customers : get_customer_stats(c).purchase_count = 0

\* C6: for every filter and search term of the index request, stats.sold is the number
\* of stored items whose sold_date is present and non-empty, which is the size of the
\* sold view taken with no search term.
C6_SoldCount ==
    \A f \in Filters, s \in Searches, t \in Todays :
        LET sold == index_result(f, s, t).stats.sold
        IN  /\ sold = Cardinality({i \in DOMAIN merchandise : Sold(merchandise[i])})
            /\ sold = Len(index_items("sold", <<>>, t))

\* C6 witness: a request whose own view is empty still reports the two sold items
C6_Witness ==
    LET r == index_result("yesterday", <<"B">>, <<2024, 1, 1>>)
    IN  r.items = <<>> /\ r.stats.sold = 2 /\ r.stats.listed = 1

\* C7: get_customer_stats(c) counts the sold items whose customer_id is c, sums their
\* sale_price (absent as 0) and nothing else into total_purchase, and ranks that total;
\* unsold items of c and sold items of other customers contribute nothing.
C7_CustomerStats ==
    \A c \in CustomerIds :
        LET bought == {i \in DOMAIN merchandise :
                          merchandise[i].customer_id = {c} /\ Sold(merchandise[i])}
            price == [i \in bought |->
                          IF merchandise[i].sale_price = NULL THEN 0
                          ELSE Val(merchandise[i].sale_price)]
            st == get_customer_stats(c)
        IN  /\ st.purchase_count = Cardinality(bought)
            /\ st.total_purchase = SumOver(bought, price)
            /\ st.rank = get_customer_rank(SumOver(bought, price))

\* C7 witness: customer 1 has one sold item (5000, bought for 3000) and one unsold item
\* that carries a sale price
C7_Witness ==
    /\ get_customer_stats(1) = [purchase_count |-> 1, total_purchase |-> 5000,
                                rank |-> "bronze"]
    /\ \E i, j \in DOMAIN merchandise :
           /\ merchandise[i].customer_id = {1} /\ ~Sold(merchandise[i])
           /\ merchandise[i].sale_price = {5000}
           /\ merchandise[j].customer_id = {1} /\ Sold(merchandise[j])
           /\ merchandise[j].purchase_price = {3000}

\* C9: a request that names an item or customer id with no record answers with the
\* not-found notice and a redirect to the listing page, and leaves the store unchanged.
C9_NotFoundNotice ==
    [][/\ \A i \in ItemIds \ DOMAIN merchandise :
              \/ view_item(i)
              \/ edit_item(i, "GET", EmptyItemForm, "none")
              \/ edit_item(i, "POST", EmptyItemForm, "none")
              \/ delete_item(i, "none")
              => response' = Redirect("error", "index") /\ store' = store
       /\ \A c \in CustomerIds \ DOMAIN customers :
              \/ view_customer(c)
              \/ edit_customer(c, "GET", EmptyCustomerForm, "none")
              \/ edit_customer(c, "POST", EmptyCustomerForm, "none")
              \/ delete_customer(c, "none")
              => response' = Redirect("error", "customers_list") /\ store' = store]_vars

\* ------------------------------------------------------------- claims: concurrency
\* the request among rs whose write was committed last
RECURSIVE LastOf(_, _)
LastOf(order, rs) ==
    IF order[Len(order)] \in rs THEN order[Len(order)]
    ELSE LastOf(SubSeq(order, 1, Len(order) - 1), rs)

\* C10: when two edit requests for the same item, or the same customer, have both run
\* in any interleaving, the stored record equals field for field the values of the
\* request whose update was applied last, and each request was answered as it would
\* have been alone (rejected only for a form the handler refuses anyway).
C10_LastWriterWins ==
    (\A r \in Requests : pc[r] = "done") =>
        /\ \A i \in DOMAIN merchandise :
               LET rs == {r \in Requests : req[r].op = "edit_item" /\ req[r].id = i}
                   valid == {r \in rs : ItemParamsOk(req[r].form)
                                            /\ req[r].form.product_name # NULL}
               IN  rs = Requests =>
                       /\ \A r \in valid : req[r].response = Redirect("success", "index")
                       /\ \A r \in rs \ valid : req[r].response = ServerError
                       /\ valid # {} =>
                              LET f == req[LastOf(applied, valid)].form
                              IN  merchandise[i]
                                      = ItemParams(f, PhotoPath(f, f.existing_photo))
        /\ \A c \in DOMAIN customers :
               LET rs == {r \in Requests : req[r].op = "edit_customer" /\ req[r].id = c}
                   valid == {r \in rs : req[r].form.name # NULL}
               IN  rs = Requests =>
                       /\ \A r \in valid :
                              req[r].response = Redirect("success", "customers_list")
                       /\ \A r \in rs \ valid : req[r].response = ServerError
                       /\ valid # {} =>
                              customers[c] = CustomerParams(req[LastOf(applied, valid)].form)

\* C10 witness: r1 and r2 edited item 1 with different values while both were in
\* flight, r2's update was committed first and r1's last
C10_Witness ==
    /\ \A r \in Requests : pc[r] = "done" /\ req[r].op = "edit_item" /\ req[r].id = 1
    /\ req["r1"].form = ListedForm
    /\ req["r2"].form = SoldUnlistedForm
    /\ applied = <<"r2", "r1">>
    /\ merchandise[1].memo = NULL /\ merchandise[1].customer_id = {1}

\* ------------------------------------------------------------- claims: profit, ids
\* C11: in every store reached through add_item, edit_item, delete_item and
\* delete_customer, stats.total_profit is the sum over exactly the sold items of
\* calculate_profit(item), sale_price - purchase_price - shipping_cost - commission with
\* a missing component as 0; unsold items add nothing and it is 0 when nothing is sold.
C11_TotalProfit ==
    LET sold == {i \in DOMAIN merchandise : Sold(merchandise[i])}
        profit == [i \in sold |-> calculate_profit(merchandise[i])]
    IN  /\ stats.total_profit = SumOver(sold, profit)
        /\ sold = {} => stats.total_profit = 0

\* C11 witness: one sold item with profit 5000 - 3000 - 300 - 200 beside an unsold
\* item that carries a sale price
C11_Witness ==
    /\ stats.total_profit = 1500
    /\ \E i, j \in DOMAIN merchandise :
           /\ Sold(merchandise[i]) /\ merchandise[i].shipping_cost = {300}
           /\ ~Sold(merchandise[j]) /\ merchandise[j].sale_price = {5000}

\* what C12 says of one store: every id was assigned by the store, and the unfiltered
\* index view lists every item once, in strictly descending id order
C12_State ==
    /\ DOMAIN merchandise \subseteq 1..item_seq
    /\ \A t \in Todays :
           LET items == index_items("all", <<>>, t)
           IN  /\ Range(items) = DOMAIN merchandise
               /\ Len(items) = Cardinality(DOMAIN merchandise)
               /\ \A k \in 1..(Len(items) - 1) : items[k] > items[k + 1]

\* what C12 says of one request: an id given to a new item is larger than every id
\* given before, so it is no freed id and id order is creation order; a request that
\* adds or removes an id, or changes more than one item, is no edit_item
C12_Step ==
    /\ item_seq' >= item_seq
    /\ \A i \in DOMAIN merchandise' \ DOMAIN merchandise : i > item_seq
    /\ \/ /\ DOMAIN merchandise' = DOMAIN merchandise
          /\ Cardinality({j \in DOMAIN merchandise : merchandise'[j] # merchandise[j]}) <= 1
       \/ \A i \in ItemIds, q \in ItemPosts : ~edit_item(i, "POST", q[1], q[2])

\* C12: after any sequence of add_item, edit_item and delete_item, item ids are unique,
\* an item's id never changes under edit_item, an id freed by delete_item is never given
\* to a later item, and the index view lists the items in strictly descending id order,
\* the reverse of the order of creation.
C12_Ids == []C12_State /\ [][C12_Step]_vars

\* C12 witness: id 1 was freed by delete_item and the item listed now has id 2
C12_Witness ==
    /\ item_seq = 2
    /\ DOMAIN merchandise = {2}
    /\ index_items("all", <<>>, <<2024, 3, 4>>) = <<2>>

\* C13: in every reachable store, after any requests and under any interleaving of their
\* statements, every item's customer_id is absent or the id of a customer that exists.
C13_ReferentialIntegrity ==
    \A i \in DOMAIN merchandise :
        \/ merchandise[i].customer_id = NULL
        \/ Val(merchandise[i].customer_id) \in DOMAIN customers

====
